---------------------------- MODULE Spec2Model ----------------------------
(***************************************************************************)
(* A model of src/src/grep.rs: grep() scanning a list of paths and         *)
(* handle_file() scanning one file line by line under the five flags.      *)
(*                                                                         *)
(* Strings are sequences of characters, a character being a one-symbol     *)
(* TLA+ string.  A file is the sequence of lines that BufRead::read_line   *)
(* returns before it returns Ok(0) or an Err (either ends the while-let    *)
(* loop the same way), each with its trailing '\n' already trimmed         *)
(* (grep.rs:140).                                                          *)
(***************************************************************************)
EXTENDS Integers, Sequences, FiniteSets, TLC

(* ------------------------------ bounds -------------------------------- *)
MaxLen   == 2   \* longest pattern, and longest line of InitOneLine
MaxLines == 2   \* most lines of the file of InitOneFile
MaxFiles == 2   \* most paths handed to grep (InitManyFiles)

(* ------------------------------ inputs -------------------------------- *)
WideAlphabet   == {"a", "A", "b"}
NarrowAlphabet == {"a", "A"}
LinePool       == {<<>>, <<"a">>, <<"A", "a">>}
TinyFiles      == {<<>>, << <<"a">> >>, << <<"A">> >>,
                   << <<"a">>, <<"A">> >>, << <<"A">>, <<"a">> >>}
TinyPatterns   == {<<>>, <<"a">>, <<"A">>}
Paths          == {<<"f">>, <<"g">>}

StrUpTo(A, n) == UNION {[1..k -> A] : k \in 0..n}
SeqUpTo(S, n) == UNION {[1..k -> S] : k \in 0..n}

Unopenable  == [ok |-> FALSE, lines |-> <<>>]
Openable(L) == [ok |-> TRUE, lines |-> L]

VARIABLES
    flags,        \* the Flags struct handed to grep (its five booleans)
    pattern,      \* grep's pattern argument
    files,        \* grep's files argument
    fs,           \* the file system: what opening and reading each path gives
    pc,           \* "for": head of grep's loop; "while": head of handle_file's
                  \* read loop; "done": grep has returned
    fi,           \* 1-based position of grep's loop in files
    line_number,  \* handle_file's line_number
    hit,          \* handle_file's hit, as left by the last line classified
    result,       \* handle_file's result vector for the file being scanned
    out,          \* grep's result vector
    ret           \* what grep returned: "none" before it returns

vars == <<flags, pattern, files, fs, pc, fi, line_number, hit, result, out, ret>>

Flags == [show_line_number : BOOLEAN, file_name_only : BOOLEAN,
          case_insensitie : BOOLEAN, invert_mode : BOOLEAN,
          entire_line_only : BOOLEAN]

(* ------------------------- library functions -------------------------- *)
\* u8::to_ascii_lowercase: only 'A'..'Z' change.
ascii_lower(c) ==
    CASE c = "A" -> "a"
      [] c = "B" -> "b"
      [] OTHER   -> c

to_ascii_lowercase(s) == [i \in 1..Len(s) |-> ascii_lower(s[i])]

\* str::eq_ignore_ascii_case
eq_ignore_ascii_case(a, b) ==
    /\ Len(a) = Len(b)
    /\ \A i \in 1..Len(a) : ascii_lower(a[i]) = ascii_lower(b[i])

\* a mutant of contains: the pattern is looked for at the start of the line only
contains_at_start(s, p) ==
    /\ Len(p) <= Len(s)
    /\ SubSeq(s, 1, Len(p)) = p

\* str::contains with a &String pattern: p occurs at some offset of s
contains(s, p) ==
    \E i \in 0..(Len(s) - Len(p)) : SubSeq(s, i + 1, i + Len(p)) = p

Digits == <<"0", "1", "2", "3", "4", "5", "6", "7", "8", "9">>

\* i32::to_string of a positive number: its decimal digits
RECURSIVE to_string(_)
to_string(n) ==
    IF n < 10 THEN <<Digits[n + 1]>>
    ELSE to_string(n \div 10) \o <<Digits[(n % 10) + 1]>>

(* ---------------------------- handle_file ----------------------------- *)
\* a mutant of handle_file_pattern: the pattern is never folded
pattern_as_given(p) == p

\* grep.rs:122-126, the pattern handle_file compares lines with
handle_file_pattern(p) ==
    IF flags.case_insensitie THEN to_ascii_lowercase(p) ELSE p

\* a mutant of is_hit: entire_line_only is ignored
is_hit_by_containment(line, pat) ==
    IF flags.case_insensitie
    THEN contains(to_ascii_lowercase(line), pat)
    ELSE contains(line, pat)

\* grep.rs:142-165, the value of hit for a line; pat is handle_file's pattern
is_hit(line, pat) ==
    IF flags.case_insensitie
    THEN IF flags.entire_line_only
         THEN eq_ignore_ascii_case(line, pat)
         ELSE contains(to_ascii_lowercase(line), pat)
    ELSE IF flags.entire_line_only
         THEN line = pat
         ELSE contains(line, pat)

\* grep.rs:173-179, the record pushed for a hit line
final_s(line, n) ==
    IF flags.show_line_number
    THEN to_string(n) \o <<":">> \o line
    ELSE line

path  == files[fi]
lines == fs[path].lines

(* ------------------------------- Init --------------------------------- *)
\* one file of one line, pattern and line over the wide alphabet
InitOneLine ==
    /\ pattern \in StrUpTo(WideAlphabet, MaxLen)
    /\ files = << <<"f">> >>
    /\ \E l \in StrUpTo(WideAlphabet, MaxLen) :
          fs = [p \in Paths |-> IF p = <<"f">> THEN Openable(<<l>>) ELSE Unopenable]

\* one file of up to MaxLines lines drawn from LinePool
InitOneFile ==
    /\ pattern \in StrUpTo(NarrowAlphabet, MaxLen)
    /\ files = << <<"f">> >>
    /\ \E L \in SeqUpTo(LinePool, MaxLines) :
          fs = [p \in Paths |-> IF p = <<"f">> THEN Openable(L) ELSE Unopenable]

\* up to MaxFiles paths, each unopenable or one of TinyFiles
InitManyFiles ==
    /\ pattern \in TinyPatterns
    /\ files \in SeqUpTo(Paths, MaxFiles) \ {<<>>}
    /\ fs \in [Paths -> {Unopenable} \cup {Openable(L) : L \in TinyFiles}]

Init ==
    /\ flags \in Flags
    /\ \/ InitOneLine
       \/ InitOneFile
       \/ InitManyFiles
    /\ pc = "for"
    /\ fi = 1
    /\ line_number = 0
    /\ hit = FALSE
    /\ result = <<>>
    /\ out = <<>>
    /\ ret = "none"

(* ------------------------------ actions ------------------------------- *)
\* grep.rs:110 calls handle_file, whose open at grep.rs:128 succeeds:
\* the read loop starts with an empty result and line_number 0
OpenOk ==
    /\ pc = "for"
    /\ fi <= Len(files)
    /\ fs[path].ok
    /\ pc' = "while"
    /\ line_number' = 0
    /\ hit' = FALSE
    /\ result' = <<>>
    /\ UNCHANGED <<flags, pattern, files, fs, fi, out, ret>>

\* a mutant of OpenErr: the path that failed to open is reported in the output
OpenErrReported ==
    /\ pc = "for"
    /\ fi <= Len(files)
    /\ ~fs[path].ok
    /\ out' = Append(out, path)
    /\ fi' = fi + 1
    /\ UNCHANGED <<flags, pattern, files, fs, pc, line_number, hit, result, ret>>

\* grep.rs:128-129 the open fails, grep.rs:190 handle_file returns Ok(empty),
\* grep.rs:111-114 grep appends nothing and moves to the next path
OpenErr ==
    /\ pc = "for"
    /\ fi <= Len(files)
    /\ ~fs[path].ok
    /\ out' = out \o <<>>
    /\ fi' = fi + 1
    /\ UNCHANGED <<flags, pattern, files, fs, pc, line_number, hit, result, ret>>

\* a mutant of ReadLine: inverted non-hit lines get the line-number format too
ReadLineNumbersAll ==
    /\ pc = "while"
    /\ line_number < Len(lines)
    /\ LET n    == line_number + 1
           line == lines[n]
           h    == is_hit(line, handle_file_pattern(pattern))
       IN  /\ ~(h /\ flags.file_name_only)
           /\ line_number' = n
           /\ hit' = h
           /\ result' = IF h \/ flags.invert_mode
                        THEN Append(result, final_s(line, n))
                        ELSE result
    /\ UNCHANGED <<flags, pattern, files, fs, pc, fi, out, ret>>

\* grep.rs:135-186, one iteration of the read loop that does not break:
\* a line is read, classified, and pushed or not
ReadLine ==
    /\ pc = "while"
    /\ line_number < Len(lines)
    /\ LET n    == line_number + 1
           line == lines[n]
           h    == is_hit(line, handle_file_pattern(pattern))
       IN  /\ ~(h /\ flags.file_name_only)
           /\ line_number' = n
           /\ hit' = h
           /\ result' = IF h THEN Append(result, final_s(line, n))
                        ELSE IF flags.invert_mode THEN Append(result, line)
                        ELSE result
    /\ UNCHANGED <<flags, pattern, files, fs, pc, fi, out, ret>>

\* a mutant of HitFileNameOnly: the path is pushed but the loop goes on
HitFileNameOnlyNoBreak ==
    /\ pc = "while"
    /\ line_number < Len(lines)
    /\ LET n    == line_number + 1
           line == lines[n]
           h    == is_hit(line, handle_file_pattern(pattern))
       IN  /\ h /\ flags.file_name_only
           /\ line_number' = n
           /\ hit' = h
           /\ result' = Append(result, path)
    /\ UNCHANGED <<flags, pattern, files, fs, pc, fi, out, ret>>

\* grep.rs:135-171, the iteration that hits under file_name_only: the path is
\* pushed and the loop breaks; grep.rs:190 handle_file returns and
\* grep.rs:111-114 grep appends the file's records
HitFileNameOnly ==
    /\ pc = "while"
    /\ line_number < Len(lines)
    /\ LET n    == line_number + 1
           line == lines[n]
           h    == is_hit(line, handle_file_pattern(pattern))
       IN  /\ h /\ flags.file_name_only
           /\ line_number' = n
           /\ hit' = h
           /\ out' = out \o Append(result, path)
    /\ result' = <<>>
    /\ fi' = fi + 1
    /\ pc' = "for"
    /\ UNCHANGED <<flags, pattern, files, fs, ret>>

\* a mutant of EndOfFile: the file's records go in front of the output
EndOfFilePrepends ==
    /\ pc = "while"
    /\ line_number = Len(lines)
    /\ out' = result \o out
    /\ result' = <<>>
    /\ fi' = fi + 1
    /\ pc' = "for"
    /\ UNCHANGED <<flags, pattern, files, fs, line_number, hit, ret>>

\* grep.rs:135-138 read_line returns Ok(0) (or Err), grep.rs:190 handle_file
\* returns, grep.rs:111-114 grep appends the file's records
EndOfFile ==
    /\ pc = "while"
    /\ line_number = Len(lines)
    /\ out' = out \o result
    /\ result' = <<>>
    /\ fi' = fi + 1
    /\ pc' = "for"
    /\ UNCHANGED <<flags, pattern, files, fs, line_number, hit, ret>>

\* grep.rs:116, the loop is over and grep returns Ok(result)
Return ==
    /\ pc = "for"
    /\ fi > Len(files)
    /\ pc' = "done"
    /\ ret' = "Ok"
    /\ UNCHANGED <<flags, pattern, files, fs, fi, line_number, hit, result, out>>

Next ==
    \/ OpenOk
    \/ OpenErr
    \/ ReadLine
    \/ HitFileNameOnly
    \/ EndOfFile
    \/ Return

Spec == Init /\ [][Next]_vars

TypeOK ==
    /\ flags \in Flags
    /\ pc \in {"for", "while", "done"}
    /\ fi \in 1..(Len(files) + 1)
    /\ ret \in {"none", "Ok"}
    /\ hit \in BOOLEAN


(* ------------------- reference operators of the claims ---------------- *)
RECURSIVE Concat(_)
Concat(ss) == IF ss = <<>> THEN <<>> ELSE Head(ss) \o Concat(Tail(ss))

\* p is a substring of s: s = u \o p \o v for some u and v
Occurs(p, s) ==
    \E i \in 0..Len(s), j \in 0..Len(s) : i <= j /\ SubSeq(s, i + 1, j) = p

\* the strings that differ from s in the case of ASCII letters only
CaseVariants(s) ==
    {t \in [1..Len(s) -> WideAlphabet] :
        \A i \in 1..Len(s) : ascii_lower(t[i]) = ascii_lower(s[i])}

Folded(s) == IF flags.case_insensitie THEN to_ascii_lowercase(s) ELSE s

LinesOf(p) == fs[p].lines
HitAt(p, i) == is_hit(LinesOf(p)[i], handle_file_pattern(pattern))
HitLines(p) == {i \in 1..Len(LinesOf(p)) : HitAt(p, i)}
FirstHit(p) == CHOOSE i \in HitLines(p) : \A j \in HitLines(p) : i <= j
Numbered(p, i) == to_string(i) \o <<":">> \o LinesOf(p)[i]

\* the last line of p that is scanned
Scanned(p) ==
    IF flags.file_name_only /\ HitLines(p) # {} THEN FirstHit(p)
    ELSE Len(LinesOf(p))

\* the records line i of p contributes when it is scanned
LineRecords(p, i) ==
    IF HitAt(p, i)
    THEN IF flags.file_name_only THEN <<p>>
         ELSE IF flags.show_line_number THEN <<Numbered(p, i)>>
         ELSE <<LinesOf(p)[i]>>
    ELSE IF flags.invert_mode THEN <<LinesOf(p)[i]>> ELSE <<>>

\* the records of one path, in line order
FileRecords(p) ==
    IF fs[p].ok THEN Concat([i \in 1..Scanned(p) |-> LineRecords(p, i)])
    ELSE <<>>

IsPrefix(s, t) == Len(s) <= Len(t) /\ SubSeq(t, 1, Len(s)) = s

AllOff ==
    /\ ~flags.show_line_number /\ ~flags.file_name_only
    /\ ~flags.case_insensitie /\ ~flags.invert_mode /\ ~flags.entire_line_only

OnlyInvert ==
    /\ ~flags.show_line_number /\ ~flags.file_name_only
    /\ ~flags.case_insensitie /\ flags.invert_mode /\ ~flags.entire_line_only

OneOpenFile == Len(files) = 1 /\ fs[files[1]].ok

ContainsPattern(l) == Occurs(pattern, l)
LacksPattern(l) == ~Occurs(pattern, l)

(* ------------------------------- claims ------------------------------- *)

\* C1: with all five flags off, scanning one readable file gives exactly the
\* lines that contain the pattern as a substring, in file order, each as the
\* bare line text; while the file is being scanned the result holds exactly
\* those among the lines read so far.
C1_DefaultFlagsSelectContainingLines ==
    AllOff =>
        /\ (pc = "while") =>
              result = SelectSeq(SubSeq(lines, 1, line_number), ContainsPattern)
        /\ (pc = "done" /\ OneOpenFile) =>
              out = SelectSeq(LinesOf(files[1]), ContainsPattern)

C1_Witness ==
    /\ pc = "done" /\ AllOff /\ OneOpenFile
    /\ Len(LinesOf(files[1])) = 2
    /\ Len(out) = 1
    /\ out[1] # pattern
    /\ pattern # <<>>

\* C2: with invert_mode on and every other flag off, scanning one readable
\* file gives exactly the lines that do not contain the pattern, in file
\* order, and no line that contains it.
C2_InvertGivesComplement ==
    (pc = "done" /\ OnlyInvert /\ OneOpenFile) =>
        out = SelectSeq(LinesOf(files[1]), LacksPattern)

\* C3: with show_line_number on, every line pushed to the result is pushed as
\* "<i>:<line>", i being its 1-based number in its file, whatever the other
\* flags are.
C3_EveryEmittedLineIsNumbered ==
    [][(flags.show_line_number /\ pc = "while" /\ pc' = "while"
            /\ Len(result') = Len(result) + 1)
        => result'[Len(result')] = Numbered(path, line_number')]_vars

\* C4: with file_name_only on, under every combination of the other flags, a
\* file contributes its path once if one of its lines is a hit and nothing
\* otherwise; no line text is in the output.
C4_FileNameOnlyGivesOnlyPaths ==
    (pc = "done" /\ flags.file_name_only) =>
        out = Concat([i \in 1..Len(files) |->
                        IF fs[files[i]].ok /\ HitLines(files[i]) # {}
                        THEN <<files[i]>> ELSE <<>>])

\* C5: grep returns Ok, and its output is the output of the same list with
\* the paths that cannot be opened removed: those paths contribute nothing.
CanOpen(p) == fs[p].ok
OpenableFiles == SelectSeq(files, CanOpen)
C5_UnopenablePathsContributeNothing ==
    /\ (pc = "done") =>
          /\ ret = "Ok"
          /\ out = Concat([i \in 1..Len(OpenableFiles) |->
                              FileRecords(OpenableFiles[i])])
    /\ (pc # "done") => ret = "none"

C5_Witness ==
    /\ pc = "done" /\ ret = "Ok"
    /\ Len(files) = 2
    /\ ~fs[files[1]].ok
    /\ fs[files[2]].ok
    /\ out # <<>>

\* C6: with case_insensitive on, the hit decision taken for a line is the
\* decision for every pattern and line that equal them after ASCII
\* lowercasing, in containment mode and in entire-line mode.
C6_CaseInsensitiveHitIgnoresAsciiCase ==
    (flags.case_insensitie /\ pc = "while" /\ line_number >= 1) =>
        \A l2 \in CaseVariants(lines[line_number]), p2 \in CaseVariants(pattern) :
            is_hit(l2, handle_file_pattern(p2)) = hit

C6_Witness ==
    /\ flags.case_insensitie /\ pc = "while" /\ line_number >= 1
    /\ hit
    /\ pattern # to_ascii_lowercase(pattern)
    /\ lines[line_number] # to_ascii_lowercase(lines[line_number])
    /\ ~Occurs(pattern, lines[line_number])

\* C7: with entire_line_only on, a line is a hit exactly when the folded line
\* equals the folded pattern; an empty pattern then hits only empty lines,
\* and with entire_line_only off an empty pattern hits every line.
C7_EntireLineIsEquality ==
    (pc = "while" /\ line_number >= 1) =>
        LET line == lines[line_number] IN
        /\ flags.entire_line_only => (hit <=> Folded(line) = Folded(pattern))
        /\ (flags.entire_line_only /\ pattern = <<>>) => (hit <=> line = <<>>)
        /\ (~flags.entire_line_only /\ pattern = <<>>) => hit

C7_Witness ==
    /\ pc = "while" /\ line_number >= 1
    /\ flags.entire_line_only
    /\ ~hit
    /\ pattern # <<>>
    /\ Occurs(Folded(pattern), Folded(lines[line_number]))

\* C8: the output is the concatenation, in the order the paths are given, of
\* each path's own records, a path listed twice contributing twice; the
\* records of the file being scanned are its records in line order and join
\* the output only after those of the paths before it.
C8_OutputIsConcatenationInPathOrder ==
    /\ out = Concat([i \in 1..(fi - 1) |-> FileRecords(files[i])])
    /\ (pc = "while") => IsPrefix(result, FileRecords(path))
    /\ (pc = "done") => fi = Len(files) + 1

C8_Witness ==
    /\ pc = "done"
    /\ Len(files) = 2
    /\ files[1] # files[2]
    /\ Len(FileRecords(files[1])) = 2
    /\ Len(FileRecords(files[2])) = 2
    /\ FileRecords(files[1]) # FileRecords(files[2])
    /\ FileRecords(files[1])[1] # FileRecords(files[1])[2]
    /\ Len(out) = 4

\* C9: with file_name_only on, under every combination of the other flags,
\* the scan of a file stops at its first hit: the path is the last record the
\* file contributes and is pushed once, no line after the first hit
\* contributes, and a file with no hit never has its path in the output.
NameOnlyRecords(p) ==
    LET before(n) == IF flags.invert_mode THEN SubSeq(LinesOf(p), 1, n) ELSE <<>>
    IN  IF ~fs[p].ok THEN <<>>
        ELSE IF HitLines(p) = {} THEN before(Len(LinesOf(p)))
        ELSE Append(before(FirstHit(p) - 1), p)

C9_FileNameOnlyStopsAtFirstHit ==
    flags.file_name_only =>
        /\ (pc = "while") =>
              /\ \A i \in 1..line_number : ~HitAt(path, i)
              /\ result = IF flags.invert_mode
                          THEN SubSeq(lines, 1, line_number) ELSE <<>>
        /\ (pc = "done") =>
              out = Concat([i \in 1..Len(files) |-> NameOnlyRecords(files[i])])

C9_Witness ==
    /\ pc = "done" /\ flags.file_name_only /\ flags.invert_mode
    /\ OneOpenFile
    /\ Len(LinesOf(files[1])) = 2
    /\ HitAt(files[1], 1)
    /\ ~HitAt(files[1], 2)
    /\ out = <<files[1]>>

\* C10: with invert_mode on and file_name_only off, every line read gives
\* exactly one record: a non-hit line its bare text even under
\* show_line_number, a hit line "<n>:<text>" under show_line_number and its
\* bare text otherwise; the output has as many records as lines were read.
RECURSIVE TotalLines(_)
TotalLines(ps) ==
    IF ps = <<>> THEN 0
    ELSE (IF fs[Head(ps)].ok THEN Len(LinesOf(Head(ps))) ELSE 0)
         + TotalLines(Tail(ps))

=============================================================================
